---- MODULE Spec2Model ----
(***************************************************************************)
(* Model of the javavm crate (src/src/lib.rs): a process-wide, unsynchro-   *)
(* nized Option<JavaVM> (VM), the routines that derive a JNIEnv from it    *)
(* (get_env, get_env_safe) and a thread-local class cache                  *)
(* (CACHED_CLASSES) filled by load_class_cached and emptied by             *)
(* unload_cached_class.                                                    *)
(*                                                                         *)
(* Every thread runs a sequence of calls into the crate.  A call that      *)
(* touches only the caller's thread-local map is one step.  A call that    *)
(* reads the static VM and then calls into the JavaVM through the          *)
(* reference it obtained is two steps (the read, then the call through the *)
(* reference), and set_jvm is two steps (the call, then the store), so     *)
(* that other threads can run in between, as they can in the program.      *)
(* The JavaVM itself (attach_current_thread_as_daemon, find_class) is the  *)
(* jni crate: each of its results is a nondeterministic choice.            *)
(***************************************************************************)
EXTENDS Integers, FiniteSets, TLC

\* ---- bounds of the model ----
NumThreads == 2
NumNames   == 2
NumRefs    == 2
NumVMs     == 1
MaxFinds   == 2

Threads == 1..NumThreads
Names   == 1..NumNames
\* the class references find_class can hand out
Refs    == 1..NumRefs
\* the JavaVM instances a caller can pass to set_jvm
VMs     == 1..NumVMs

\* Option::None of Option<JavaVM> and of Option<JClass> / a missing map key
NoVM    == 0
NoClass == 0

VARIABLES
    VM,              \* static mut VM: Option<JavaVM>
    CACHED_CLASSES,  \* thread_local HashMap: [thread -> [name -> ref or NoClass]]
    pc,              \* where each thread is
    call,            \* the call each thread is in, or made last
    held,            \* the JavaVM a thread saw behind VM.as_ref()
    ret,             \* how the last call of each thread ended
    attached,        \* JavaVM side: the VMs each thread is attached to
    findCalls,       \* JavaVM side: find_class calls so far, by thread and name
    findOk,          \* JavaVM side: those of them that returned Ok
    resolved,        \* history: what load_class_cached(n) last returned to t,
                     \*          forgotten at unload_cached_class(n) on t
    lastSet,         \* history: the argument of the set_jvm that returned last
    serial,          \* history: no two calls of set_jvm have overlapped so far
    initFirst        \* history: the calls so far were one set_jvm, which had
                     \*          returned before any other call began

vars == <<VM, CACHED_CLASSES, pc, call, held, ret, attached, findCalls, findOk,
          resolved, lastSet, serial, initFirst>>

\* ---- the JavaVM's count of find_class calls ----
RECURSIVE SumOver(_, _)
SumOver(f, S) ==
    IF S = {} THEN 0
    ELSE LET p == CHOOSE q \in S : TRUE
         IN  f[p[1]][p[2]] + SumOver(f, S \ {p})

CountOf(f) == SumOver(f, Threads \X Names)
FindCount  == CountOf(findCalls)

\* ---- calls and their results ----
\* kind:  "some" (a value, val), "none" (Option::None), "unit", "panic"; before
\*        the first call "init", during a call "pending"
\* why:   why a call panicked or returned None: "no_vm" (VM was None),
\*        "attach_err" (attach_current_thread_as_daemon failed),
\*        "find_err" (find_class failed)
\* finds: the number of find_class calls made during the call
\* found: what find_class returned during the call (NoClass: Err, or no call)
Ret(k, v, w, f, c) == [kind |-> k, val |-> v, why |-> w, finds |-> f, found |-> c]
RetInit       == Ret("init", 0, "", 0, 0)
RetPending    == Ret("pending", 0, "", 0, 0)
RetUnit       == Ret("unit", 0, "", 0, 0)
RetNone(w)    == Ret("none", 0, w, 0, 0)
RetPanic(w)   == Ret("panic", 0, w, 0, 0)
RetSome(v)    == Ret("some", v, "", 0, 0)

NoCall       == [op |-> "none", arg |-> 0]
Call(o, a)   == [op |-> o, arg |-> a]

\* ---- the static VM ----
\* threads between the call of set_jvm and its store to VM
Writers == {t \in Threads : pc[t] = "set_jvm_write"}

\* What a read of VM by thread t can observe: the stored value, or, when the
\* read overlaps another thread's store (a data race), the value being stored.
ReadVM(t) == {VM} \cup {call[u].arg : u \in Writers \ {t}}

\* What a call through the &'static JavaVM obtained earlier can reach: the
\* JavaVM seen then, or one stored into VM since (the reference points into
\* the static itself).  The reference is dropped when the call ends.
DerefVM(t) == {held[t]} \cup (ReadVM(t) \ {NoVM})

\* jvm(): Some(vm) if VM holds one, else None
JvmResult(v) == IF v = NoVM THEN RetNone("no_vm") ELSE RetSome(v)

\* ---- the thread-local map ----
\* (mutant) insert under another key
InsertElsewhere(map, n, c) == [map EXCEPT ![(n % NumNames) + 1] = c]

\* HashMap::insert
Insert(map, n, c) == [map EXCEPT ![n] = c]

\* (mutant) remove that empties the map
RemoveAll(map, n) == [m \in DOMAIN map |-> NoClass]

\* (mutant) remove that finds no key to remove
RemoveNothing(map, n) == map

\* (mutant) a remove that takes out the entry of another key
RemoveOther(map, n) == [map EXCEPT ![(n % NumNames) + 1] = NoClass]

\* HashMap::remove
Remove(map, n) == [map EXCEPT ![n] = NoClass]

\* (mutant) one map shared by all threads: any thread's entry for the name
GetClassShared(cc, t, n) ==
    IF \E u \in Threads : cc[u][n] # NoClass
    THEN cc[CHOOSE u \in Threads : cc[u][n] # NoClass][n]
    ELSE NoClass

\* the get_class closure of load_class_cached, on the maps cc: the entry of
\* the caller's own map, NoClass when the key is missing
GetClass(cc, t, n) == cc[t][n]

\* Option<JClass> as the result of a call that made f find_class calls, the
\* last of which returned r
OptClass(c, f, r) ==
    IF c = NoClass THEN Ret("none", 0, "find_err", f, r) ELSE Ret("some", c, "", f, r)

Init ==
    /\ VM = NoVM
    /\ CACHED_CLASSES = [t \in Threads |-> [n \in Names |-> NoClass]]
    /\ pc = [t \in Threads |-> "idle"]
    /\ call = [t \in Threads |-> NoCall]
    /\ held = [t \in Threads |-> NoVM]
    /\ ret = [t \in Threads |-> RetInit]
    /\ attached = [t \in Threads |-> {}]
    /\ findCalls = [t \in Threads |-> [n \in Names |-> 0]]
    /\ findOk = [t \in Threads |-> [n \in Names |-> 0]]
    /\ resolved = [t \in Threads |-> [n \in Names |-> NoClass]]
    /\ lastSet = NoVM
    /\ serial = TRUE
    /\ initFirst = TRUE

\* ---- set_jvm ----
\* (mutant) a VM that is set once: a later store is dropped
StoredOnce(old, v) == IF old = NoVM THEN v ELSE old

\* VM = vm: the value the store of set_jvm(v) leaves in VM
Stored(old, v) == v

SetJvmCall(t, v) ==
    /\ pc[t] = "idle"
    /\ pc' = [pc EXCEPT ![t] = "set_jvm_write"]
    /\ call' = [call EXCEPT ![t] = Call("set_jvm", v)]
    /\ ret' = [ret EXCEPT ![t] = RetPending]
    /\ serial' = (serial /\ Writers \ {t} = {})
    /\ UNCHANGED <<VM, CACHED_CLASSES, held, attached, findCalls, findOk, resolved, lastSet>>

\* What the store of thread t can leave in VM: its own value, or, when it
\* overlaps the store of another thread (a data race), that thread's value.
StoreVM(t) == {Stored(VM, call[t].arg)} \cup {call[u].arg : u \in Writers \ {t}}

SetJvmWrite(t) ==
    /\ pc[t] = "set_jvm_write"
    /\ VM' \in StoreVM(t)
    /\ pc' = [pc EXCEPT ![t] = "idle"]
    /\ ret' = [ret EXCEPT ![t] = RetUnit]
    /\ lastSet' = call[t].arg
    /\ UNCHANGED <<CACHED_CLASSES, call, held, attached, findCalls, findOk, resolved, serial>>

\* ---- jvm ----
Jvm(t) ==
    /\ pc[t] = "idle"
    /\ \E v \in ReadVM(t) : ret' = [ret EXCEPT ![t] = JvmResult(v)]
    /\ call' = [call EXCEPT ![t] = Call("jvm", 0)]
    /\ UNCHANGED <<VM, CACHED_CLASSES, pc, held, attached, findCalls, findOk, resolved, lastSet, serial>>

\* ---- get_env ----
\* (mutant) None is handed back to the caller instead of panicking
AsRefUnwrapLenient(t, v, next) ==
    IF v = NoVM
    THEN /\ ret' = [ret EXCEPT ![t] = RetNone("no_vm")]
         /\ UNCHANGED <<pc, held>>
    ELSE /\ pc' = [pc EXCEPT ![t] = next]
         /\ ret' = [ret EXCEPT ![t] = RetPending]
         /\ held' = [held EXCEPT ![t] = v]

\* VM.as_ref().unwrap(): panics on None, else keeps the reference and goes on
AsRefUnwrap(t, v, next) ==
    IF v = NoVM
    THEN /\ pc' = [pc EXCEPT ![t] = "panicked"]
         /\ ret' = [ret EXCEPT ![t] = RetPanic("no_vm")]
         /\ UNCHANGED held
    ELSE /\ pc' = [pc EXCEPT ![t] = next]
         /\ ret' = [ret EXCEPT ![t] = RetPending]
         /\ held' = [held EXCEPT ![t] = v]

\* the outcomes of JavaVM::attach_current_thread_as_daemon: Ok (TRUE) or Err
AttachResults == BOOLEAN

GetEnvCall(t) ==
    /\ pc[t] = "idle"
    /\ call' = [call EXCEPT ![t] = Call("get_env", 0)]
    /\ \E v \in ReadVM(t) : AsRefUnwrap(t, v, "get_env_attach")
    /\ UNCHANGED <<VM, CACHED_CLASSES, attached, findCalls, findOk, resolved, lastSet, serial>>

\* vm.attach_current_thread_as_daemon().unwrap()
GetEnvAttach(t) ==
    /\ pc[t] = "get_env_attach"
    /\ \E v \in DerefVM(t), ok \in AttachResults :
          IF ok
          THEN /\ attached' = [attached EXCEPT ![t] = @ \cup {v}]
               /\ pc' = [pc EXCEPT ![t] = "idle"]
               /\ ret' = [ret EXCEPT ![t] = RetSome(v)]
          ELSE /\ pc' = [pc EXCEPT ![t] = "panicked"]
               /\ ret' = [ret EXCEPT ![t] = RetPanic("attach_err")]
               /\ UNCHANGED attached
    /\ held' = [held EXCEPT ![t] = NoVM]
    /\ UNCHANGED <<VM, CACHED_CLASSES, call, findCalls, findOk, resolved, lastSet, serial>>

\* ---- get_env_safe ----
\* (mutant) unwrap() where the ? should be
AsRefTryUnwrap(t, v, next) ==
    IF v = NoVM
    THEN /\ pc' = [pc EXCEPT ![t] = "panicked"]
         /\ ret' = [ret EXCEPT ![t] = RetPanic("no_vm")]
         /\ UNCHANGED held
    ELSE /\ pc' = [pc EXCEPT ![t] = next]
         /\ ret' = [ret EXCEPT ![t] = RetPending]
         /\ held' = [held EXCEPT ![t] = v]

\* VM.as_ref()?: returns None on None, else keeps the reference and goes on
AsRefTry(t, v, next) ==
    IF v = NoVM
    THEN /\ ret' = [ret EXCEPT ![t] = RetNone("no_vm")]
         /\ UNCHANGED <<pc, held>>
    ELSE /\ pc' = [pc EXCEPT ![t] = next]
         /\ ret' = [ret EXCEPT ![t] = RetPending]
         /\ held' = [held EXCEPT ![t] = v]

\* (mutant) get_env_safe taking the JavaVM out of VM (Option::take) where the
\* code borrows it (as_ref)
GetEnvSafeCallTake(t) ==
    /\ pc[t] = "idle"
    /\ call' = [call EXCEPT ![t] = Call("get_env_safe", 0)]
    /\ \E v \in ReadVM(t) : AsRefTry(t, v, "get_env_safe_attach")
    /\ VM' = NoVM
    /\ UNCHANGED <<CACHED_CLASSES, attached, findCalls, findOk, resolved, lastSet, serial>>

GetEnvSafeCall(t) ==
    /\ pc[t] = "idle"
    /\ call' = [call EXCEPT ![t] = Call("get_env_safe", 0)]
    /\ \E v \in ReadVM(t) : AsRefTry(t, v, "get_env_safe_attach")
    /\ UNCHANGED <<VM, CACHED_CLASSES, attached, findCalls, findOk, resolved, lastSet, serial>>

\* (mutant) get_env_safe detaching the thread when the attach call fails
GetEnvSafeAttachDetach(t) ==
    /\ pc[t] = "get_env_safe_attach"
    /\ \E v \in DerefVM(t), ok \in AttachResults :
          IF ok
          THEN /\ attached' = [attached EXCEPT ![t] = @ \cup {v}]
               /\ ret' = [ret EXCEPT ![t] = RetSome(v)]
          ELSE /\ ret' = [ret EXCEPT ![t] = RetNone("attach_err")]
               /\ attached' = [attached EXCEPT ![t] = {}]
    /\ pc' = [pc EXCEPT ![t] = "idle"]
    /\ held' = [held EXCEPT ![t] = NoVM]
    /\ UNCHANGED <<VM, CACHED_CLASSES, call, findCalls, findOk, resolved, lastSet, serial>>

\* match vm.attach_current_thread_as_daemon() { Ok(env) => Some(env), Err(_) => None }
GetEnvSafeAttach(t) ==
    /\ pc[t] = "get_env_safe_attach"
    /\ \E v \in DerefVM(t), ok \in AttachResults :
          IF ok
          THEN /\ attached' = [attached EXCEPT ![t] = @ \cup {v}]
               /\ ret' = [ret EXCEPT ![t] = RetSome(v)]
          ELSE /\ ret' = [ret EXCEPT ![t] = RetNone("attach_err")]
               /\ UNCHANGED attached
    /\ pc' = [pc EXCEPT ![t] = "idle"]
    /\ held' = [held EXCEPT ![t] = NoVM]
    /\ UNCHANGED <<VM, CACHED_CLASSES, call, findCalls, findOk, resolved, lastSet, serial>>

\* ---- load_class_cached ----
\* history: a call that returned Some(c) for n is remembered
Remember(t, n, r) ==
    IF r.kind = "some" THEN [resolved EXCEPT ![t][n] = r.val] ELSE resolved

\* (mutant) a hit that asks the JavaVM again and returns what it says
LoadHitRefind(t, n) ==
    /\ pc[t] = "idle"
    /\ GetClass(CACHED_CLASSES, t, n) # NoClass
    /\ call' = [call EXCEPT ![t] = Call("load_class_cached", n)]
    /\ findCalls' = [findCalls EXCEPT ![t][n] = @ + 1]
    /\ findOk' = [findOk EXCEPT ![t][n] = @ + 1]
    /\ \E r \in Refs :
          /\ CACHED_CLASSES' = [CACHED_CLASSES EXCEPT ![t] = Insert(@, n, r)]
          /\ ret' = [ret EXCEPT ![t] = OptClass(r, 1, r)]
    /\ resolved' = Remember(t, n, ret'[t])
    /\ UNCHANGED <<VM, pc, held, attached, lastSet, serial>>

\* (mutant) a hit that asks for the JavaVM before it looks into the cache
LoadHitNeedsVM(t, n) ==
    /\ pc[t] = "idle"
    /\ GetClass(CACHED_CLASSES, t, n) # NoClass
    /\ call' = [call EXCEPT ![t] = Call("load_class_cached", n)]
    /\ \E v \in ReadVM(t) :
          IF v = NoVM
          THEN /\ pc' = [pc EXCEPT ![t] = "panicked"]
               /\ ret' = [ret EXCEPT ![t] = RetPanic("no_vm")]
          ELSE /\ ret' = [ret EXCEPT ![t] = OptClass(GetClass(CACHED_CLASSES, t, n), 0, NoClass)]
               /\ UNCHANGED pc
    /\ resolved' = Remember(t, n, ret'[t])
    /\ UNCHANGED <<VM, CACHED_CLASSES, held, attached, findCalls, findOk, lastSet, serial>>

\* the first get_class() found the class: return it
LoadHit(t, n) ==
    /\ pc[t] = "idle"
    /\ GetClass(CACHED_CLASSES, t, n) # NoClass
    /\ call' = [call EXCEPT ![t] = Call("load_class_cached", n)]
    /\ ret' = [ret EXCEPT ![t] = OptClass(GetClass(CACHED_CLASSES, t, n), 0, NoClass)]
    /\ resolved' = Remember(t, n, ret'[t])
    /\ UNCHANGED <<VM, CACHED_CLASSES, pc, held, attached, findCalls, findOk, lastSet, serial>>

\* (mutant) get_env_safe() where get_env() is called
LoadMissSafe(t, n) ==
    /\ pc[t] = "idle"
    /\ GetClass(CACHED_CLASSES, t, n) = NoClass
    /\ call' = [call EXCEPT ![t] = Call("load_class_cached", n)]
    /\ \E v \in ReadVM(t) : AsRefTry(t, v, "load_attach")
    /\ UNCHANGED <<VM, CACHED_CLASSES, attached, findCalls, findOk, resolved, lastSet, serial>>

\* the first get_class() found nothing: get_env(), up to its read of VM
LoadMiss(t, n) ==
    /\ pc[t] = "idle"
    /\ GetClass(CACHED_CLASSES, t, n) = NoClass
    /\ call' = [call EXCEPT ![t] = Call("load_class_cached", n)]
    /\ \E v \in ReadVM(t) : AsRefUnwrap(t, v, "load_attach")
    /\ UNCHANGED <<VM, CACHED_CLASSES, attached, findCalls, findOk, resolved, lastSet, serial>>

\* the outcomes of env.find_class(name): Ok(class) for a class reference, or
\* Err (NoClass)
FindResults == Refs \cup {NoClass}

\* (mutant) a failed lookup is cached too, as some class
CacheFoundOrNot(map, n, r) ==
    Insert(map, n, IF r # NoClass THEN r ELSE CHOOSE c \in Refs : TRUE)

\* (mutant) an insert that first empties the map
CacheFoundOnly(map, n, r) ==
    IF r # NoClass THEN [m \in DOMAIN map |-> IF m = n THEN r ELSE NoClass] ELSE map

\* if let Ok(class) = env.find_class(name) { insert }
CacheFound(map, n, r) == IF r # NoClass THEN Insert(map, n, r) ELSE map

\* the rest of get_env(), then find_class, the insert and the last get_class()
LoadFind(t) ==
    /\ pc[t] = "load_attach"
    /\ \E v \in DerefVM(t), ok \in AttachResults :
          IF ok
          THEN /\ FindCount < MaxFinds
               /\ attached' = [attached EXCEPT ![t] = @ \cup {v}]
               /\ findCalls' = [findCalls EXCEPT ![t][call[t].arg] = @ + 1]
               /\ \E r \in FindResults :
                     /\ findOk' = [findOk EXCEPT ![t][call[t].arg] =
                                      IF r # NoClass THEN @ + 1 ELSE @]
                     /\ CACHED_CLASSES' =
                           [CACHED_CLASSES EXCEPT ![t] = CacheFound(@, call[t].arg, r)]
                     /\ ret' = [ret EXCEPT ![t] =
                           OptClass(GetClass(CACHED_CLASSES', t, call[t].arg), 1, r)]
               /\ pc' = [pc EXCEPT ![t] = "idle"]
          ELSE /\ pc' = [pc EXCEPT ![t] = "panicked"]
               /\ ret' = [ret EXCEPT ![t] = RetPanic("attach_err")]
               /\ UNCHANGED <<CACHED_CLASSES, attached, findCalls, findOk>>
    /\ resolved' = Remember(t, call[t].arg, ret'[t])
    /\ held' = [held EXCEPT ![t] = NoVM]
    /\ UNCHANGED <<VM, call, lastSet, serial>>

\* (mutant) an unload that asks for the JavaVM first, as get_env does
UnloadNeedsVM(t, n) ==
    /\ pc[t] = "idle"
    /\ call' = [call EXCEPT ![t] = Call("unload_cached_class", n)]
    /\ \E v \in ReadVM(t) :
          IF v = NoVM
          THEN /\ pc' = [pc EXCEPT ![t] = "panicked"]
               /\ ret' = [ret EXCEPT ![t] = RetPanic("no_vm")]
               /\ UNCHANGED <<CACHED_CLASSES, resolved>>
          ELSE /\ CACHED_CLASSES' = [CACHED_CLASSES EXCEPT ![t] = Remove(@, n)]
               /\ ret' = [ret EXCEPT ![t] = RetUnit]
               /\ resolved' = [resolved EXCEPT ![t][n] = NoClass]
               /\ UNCHANGED pc
    /\ UNCHANGED <<VM, held, attached, findCalls, findOk, lastSet, serial>>

\* ---- unload_cached_class ----
UnloadCachedClass(t, n) ==
    /\ pc[t] = "idle"
    /\ call' = [call EXCEPT ![t] = Call("unload_cached_class", n)]
    /\ CACHED_CLASSES' = [CACHED_CLASSES EXCEPT ![t] = Remove(@, n)]
    /\ ret' = [ret EXCEPT ![t] = RetUnit]
    /\ resolved' = [resolved EXCEPT ![t][n] = NoClass]
    /\ UNCHANGED <<VM, pc, held, attached, findCalls, findOk, lastSet, serial>>

\* ---- the order of use the crate asks for ----
\* "you have to set the JavaVM once before you use the functions in this
\* library": set_jvm is the first call of the program, it is made once, and
\* every other call begins after it has returned.
\* thread t begins a call in this step
Begins(t) ==
    pc[t] = "idle" /\ (pc'[t] # pc[t] \/ call'[t] # call[t] \/ ret'[t] # ret[t])
\* no function of the crate has been called yet
NothingCalled == \A u \in Threads : call[u] = NoCall
\* a call of set_jvm has been made and none is under way
SetDone == (\E u \in Threads : call[u] # NoCall) /\ Writers = {}
\* the step keeps to that order
InOrder ==
    \A t \in Threads :
        Begins(t) => IF call'[t].op = "set_jvm" THEN NothingCalled ELSE SetDone
KeepOrder == initFirst' = (initFirst /\ InOrder)

Next ==
    \E t \in Threads :
        \/ \E v \in VMs \cup {NoVM} : SetJvmCall(t, v) /\ KeepOrder
        \/ SetJvmWrite(t) /\ KeepOrder
        \/ Jvm(t) /\ KeepOrder
        \/ GetEnvCall(t) /\ KeepOrder
        \/ GetEnvAttach(t) /\ KeepOrder
        \/ GetEnvSafeCall(t) /\ KeepOrder
        \/ GetEnvSafeAttach(t) /\ KeepOrder
        \/ \E n \in Names : LoadHit(t, n) /\ KeepOrder
        \/ \E n \in Names : LoadMiss(t, n) /\ KeepOrder
        \/ LoadFind(t) /\ KeepOrder
        \/ \E n \in Names : UnloadCachedClass(t, n) /\ KeepOrder

Spec == Init /\ [][Next]_vars

\* ---- properties ----
\* Steps are told apart by what they do to the thread that takes them.
\* thread t took the step
Moved(t) == pc'[t] # pc[t] \/ call'[t] # call[t] \/ ret'[t] # ret[t]
\* the step is t calling op(a)
Calls(t, op, a) == pc[t] = "idle" /\ Moved(t) /\ call'[t] = Call(op, a)
\* the step is op(a) returning to t
Returns(t, op, a) == Moved(t) /\ pc'[t] = "idle" /\ call'[t] = Call(op, a)
\* the step is op(a) panicking on t
Panics(t, op, a) == Moved(t) /\ pc'[t] = "panicked" /\ call'[t] = Call(op, a)
\* the step is the second half of load_class_cached(n) on t, returning
LoadResolves(t, n) ==
    pc[t] = "load_attach" /\ Returns(t, "load_class_cached", n)
\* no other thread is inside set_jvm
NoStore(t) == Writers \ {t} = {}

\* C1: once load_class_cached(n) has returned Some(F) on thread t and t has not
\* called unload_cached_class(n) since, a call of load_class_cached(n) on t
\* returns in one step with Some(F), the identical reference, and the JavaVM's
\* count of find_class calls does not change.
C1_RepeatedLoadIsCached ==
    [][\A t \in Threads, n \in Names :
          (Calls(t, "load_class_cached", n) /\ resolved[t][n] # NoClass)
              => /\ pc'[t] = "idle"
                 /\ ret'[t].kind = "some"
                 /\ ret'[t].val = resolved[t][n]
                 /\ ret'[t].finds = 0
                 /\ findCalls' = findCalls
                 /\ CountOf(findCalls') = FindCount]_vars

\* a second load_class_cached(n) has returned the cached reference: one
\* find_class call for n on t so far, none of them in the call that returned
C1_Witness ==
    \E t \in Threads, n \in Names :
        /\ pc[t] = "idle"
        /\ call[t] = Call("load_class_cached", n)
        /\ ret[t].kind = "some" /\ ret[t].finds = 0
        /\ ret[t].val = resolved[t][n]
        /\ findCalls[t][n] = 1 /\ findOk[t][n] = 1

\* C2: unload_cached_class(n) on t leaves no entry for n, so the
\* load_class_cached(n) that t calls next is not answered from the cache: it
\* goes on to the JavaVM (or panics, C9); when it returns it has made one more
\* find_class call for n, whose result F2 is what it returns and what t's map
\* holds under n; and any call answered from the cache returns what the map
\* holds.
C2_ReloadAfterUnload ==
    [][\A t \in Threads, n \in Names :
          /\ Returns(t, "unload_cached_class", n)
                => GetClass(CACHED_CLASSES', t, n) = NoClass
          /\ (call[t] = Call("unload_cached_class", n)
                 /\ Calls(t, "load_class_cached", n))
                => pc'[t] \in {"load_attach", "panicked"}
          /\ LoadResolves(t, n)
                => /\ findCalls'[t][n] = findCalls[t][n] + 1
                   /\ ret'[t].finds = 1
                   /\ ret'[t].kind = "some"
                         => /\ ret'[t].val = ret'[t].found
                            /\ CACHED_CLASSES'[t][n] = ret'[t].val
          /\ (Calls(t, "load_class_cached", n) /\ pc'[t] = "idle")
                => /\ ret'[t].val = CACHED_CLASSES[t][n]
                   /\ CACHED_CLASSES' = CACHED_CLASSES]_vars

\* t's second successful resolution of n has just returned: n was evicted in
\* between, and the new reference is the one cached
C2_Witness ==
    \E t \in Threads, n \in Names :
        /\ pc[t] = "idle"
        /\ call[t] = Call("load_class_cached", n)
        /\ ret[t].kind = "some" /\ ret[t].finds = 1
        /\ ret[t].val = CACHED_CLASSES[t][n]
        /\ findOk[t][n] = 2

\* C3: the maps are per thread.  A step of thread a never changes the map of
\* another thread b; a load_class_cached(n) on b while a holds n and b has no
\* resolution of its own for n is not answered from a's entry (it goes on to
\* the JavaVM, or panics), and when b's call returns it has made its own
\* find_class call.
C3_PerThreadCache ==
    [][\A a \in Threads : \A b \in Threads \ {a} :
          /\ Moved(a) => CACHED_CLASSES'[b] = CACHED_CLASSES[b]
          /\ \A n \in Names :
                /\ (Calls(b, "load_class_cached", n)
                       /\ CACHED_CLASSES[a][n] # NoClass
                       /\ resolved[b][n] = NoClass)
                      => pc'[b] \in {"load_attach", "panicked"}
                /\ (LoadResolves(b, n) /\ CACHED_CLASSES[a][n] # NoClass)
                      => findCalls'[b][n] = findCalls[b][n] + 1]_vars

\* a has resolved n and unloaded it again (its last call); b holds n, from a
\* find_class call of its own
C3_Witness ==
    \E a \in Threads : \E b \in Threads \ {a} : \E n \in Names :
        /\ CACHED_CLASSES[a][n] = NoClass /\ findOk[a][n] = 1
        /\ call[a] = Call("unload_cached_class", n) /\ pc[a] = "idle"
        /\ CACHED_CLASSES[b][n] # NoClass
        /\ findCalls[b][n] = 1 /\ findOk[b][n] = 1
        /\ pc[b] = "idle"


\* C4: when find_class fails inside load_class_cached(n) on t, the call returns
\* None (it does not panic) and t's map is as it was; the failure is not
\* remembered: as long as t has no successful resolution of n, a call of
\* load_class_cached(n) on t is never answered at once, and when it returns it
\* has called find_class again.
C4_FailedLookupNotCached ==
    [][\A t \in Threads, n \in Names :
          /\ (pc[t] = "load_attach" /\ call[t].arg = n
                 /\ findCalls'[t][n] = findCalls[t][n] + 1
                 /\ findOk'[t][n] = findOk[t][n])
                => /\ pc'[t] = "idle"
                   /\ ret'[t] = Ret("none", 0, "find_err", 1, NoClass)
                   /\ CACHED_CLASSES' = CACHED_CLASSES
          /\ (Calls(t, "load_class_cached", n)
                 /\ findCalls[t][n] > findOk[t][n]
                 /\ resolved[t][n] = NoClass)
                => pc'[t] \in {"load_attach", "panicked"}
          /\ (LoadResolves(t, n) /\ findCalls[t][n] > findOk[t][n])
                => findCalls'[t][n] = findCalls[t][n] + 1]_vars

\* find_class failed for n on t, and the next time it succeeded: two calls,
\* one Ok, and the entry is there
C4_Witness ==
    \E t \in Threads, n \in Names :
        /\ pc[t] = "idle"
        /\ call[t] = Call("load_class_cached", n)
        /\ ret[t].kind = "some" /\ ret[t].finds = 1
        /\ findCalls[t][n] = 2 /\ findOk[t][n] = 1
        /\ CACHED_CLASSES[t][n] = ret[t].val

\* C5: get_env called while VM is None (and no other thread is storing to it)
\* panics; get_env never returns anything but a JNIEnv, and it returns one
\* only after it has seen a JavaVM in VM and the attachment has succeeded (the
\* thread is then attached to that JavaVM); a failed attachment panics.
C5_GetEnvPanics ==
    [][\A t \in Threads :
          /\ (Calls(t, "get_env", 0) /\ VM = NoVM /\ NoStore(t))
                => /\ pc'[t] = "panicked"
                   /\ ret'[t] = RetPanic("no_vm")
          /\ (Moved(t) /\ call'[t].op = "get_env")
                => \/ /\ pc'[t] = "panicked"
                      /\ ret'[t].kind = "panic"
                      /\ ret'[t].why \in {"no_vm", "attach_err"}
                      /\ attached' = attached
                   \/ /\ pc'[t] = "get_env_attach"
                      /\ held'[t] \in VMs
                      /\ VM # NoVM \/ ~NoStore(t)
                   \/ /\ pc'[t] = "idle"
                      /\ pc[t] = "get_env_attach"
                      /\ ret'[t].kind = "some"
                      /\ ret'[t].val \in attached'[t]]_vars

\* one thread's get_env has panicked on VM = None, another's on a failed
\* attachment
C5_Witness ==
    \E t \in Threads, u \in Threads :
        /\ call[t].op = "get_env" /\ pc[t] = "panicked"
        /\ ret[t] = RetPanic("no_vm")
        /\ call[u].op = "get_env" /\ pc[u] = "panicked"
        /\ ret[u] = RetPanic("attach_err")

\* C6: get_env_safe never panics.  Called while VM is None (and no other
\* thread is storing to it) it returns None; after a failed attachment it
\* returns None; otherwise it returns a JNIEnv, of a JavaVM the thread is
\* then attached to.  Its read of VM finds a JavaVM in exactly the states in
\* which that of get_env does, and finds None in exactly the states in which
\* get_env panics.
C6_GetEnvSafeNeverPanics ==
    [][\A t \in Threads :
          /\ (Calls(t, "get_env_safe", 0) /\ VM = NoVM /\ NoStore(t))
                => /\ pc'[t] = "idle"
                   /\ ret'[t] = RetNone("no_vm")
          /\ (Moved(t) /\ call'[t].op = "get_env_safe")
                => \/ /\ pc'[t] = "idle"
                      /\ ret'[t].kind = "none"
                      /\ ret'[t].why \in {"no_vm", "attach_err"}
                      /\ attached' = attached
                   \/ /\ pc'[t] = "get_env_safe_attach"
                      /\ held'[t] \in VMs
                      /\ VM # NoVM \/ ~NoStore(t)
                   \/ /\ pc'[t] = "idle"
                      /\ pc[t] = "get_env_safe_attach"
                      /\ ret'[t].kind = "some"
                      /\ ret'[t].val \in attached'[t]
          /\ pc[t] = "idle"
                => /\ (ENABLED (GetEnvSafeCall(t) /\ pc'[t] = "get_env_safe_attach"))
                         <=> (ENABLED (GetEnvCall(t) /\ pc'[t] = "get_env_attach"))
                   /\ (ENABLED (GetEnvSafeCall(t) /\ ret'[t] = RetNone("no_vm")))
                         <=> (ENABLED (GetEnvCall(t) /\ pc'[t] = "panicked"))]_vars

\* get_env_safe has returned None to one thread because VM was None, and to
\* another because the attachment failed
C6_Witness ==
    \E t \in Threads, u \in Threads :
        /\ call[t].op = "get_env_safe" /\ pc[t] = "idle"
        /\ ret[t] = RetNone("no_vm")
        /\ call[u].op = "get_env_safe" /\ pc[u] = "idle"
        /\ ret[u] = RetNone("attach_err")

\* C7: unload_cached_class(n) on t returns in one step, without a panic; if
\* t's map had no entry for n the map is unchanged; if it had one, the map
\* differs in the entry for n alone, which is gone.
C7_UnloadRemovesOnlyName ==
    [][\A t \in Threads, n \in Names :
          Calls(t, "unload_cached_class", n)
              => /\ pc'[t] = "idle"
                 /\ ret'[t] = RetUnit
                 /\ CACHED_CLASSES[t][n] = NoClass
                       => CACHED_CLASSES' = CACHED_CLASSES
                 /\ CACHED_CLASSES'[t][n] = NoClass
                 /\ \A m \in Names \ {n} :
                       CACHED_CLASSES'[t][m] = CACHED_CLASSES[t][m]]_vars

\* t has unloaded a name it never looked up, and still holds another name
C7_Witness ==
    \E t \in Threads, n \in Names : \E m \in Names \ {n} :
        /\ pc[t] = "idle"
        /\ call[t] = Call("unload_cached_class", n)
        /\ ret[t] = RetUnit
        /\ findCalls[t][n] = 0
        /\ CACHED_CLASSES[t][m] # NoClass

\* C8: VM holds None or one JavaVM.  As long as no two calls of set_jvm have
\* overlapped, VM holds the argument of the set_jvm that returned last (None
\* if there was none), and jvm() called while no other thread is inside
\* set_jvm returns that value; jvm() never panics and never changes VM.
C8_JvmReturnsLastSet ==
    [][/\ VM' \in VMs \cup {NoVM}
       /\ serial' => VM' = lastSet'
       /\ \A t \in Threads :
             /\ (Calls(t, "jvm", 0) /\ NoStore(t) /\ serial)
                   => ret'[t] = JvmResult(lastSet)
             /\ (Moved(t) /\ call'[t].op = "jvm")
                   => /\ pc'[t] = "idle"
                      /\ ret'[t].kind \in {"some", "none"}
                      /\ VM' = VM]_vars

\* jvm() has returned None after a JavaVM had been set and cleared again
C8_Witness ==
    \E t \in Threads, u \in Threads :
        /\ call[t].op = "jvm" /\ pc[t] = "idle"
        /\ ret[t] = RetNone("no_vm")
        /\ call[u] = Call("set_jvm", NoVM) /\ pc[u] = "idle"
        /\ attached[u] # {}
        /\ VM = NoVM

\* C9: load_class_cached(n) on a miss gets its JNIEnv as get_env does: called
\* while VM is None (and no other thread is storing to it) it panics, a failed
\* attachment panics, and neither ever comes back as None; a panicking step
\* adds no entry to any map and makes no find_class call.
C9_LoadMissPanics ==
    [][\A t \in Threads, n \in Names :
          /\ (Calls(t, "load_class_cached", n)
                 /\ CACHED_CLASSES[t][n] = NoClass /\ VM = NoVM /\ NoStore(t))
                => /\ pc'[t] = "panicked"
                   /\ ret'[t] = RetPanic("no_vm")
          /\ (Moved(t) /\ call'[t] = Call("load_class_cached", n)
                 /\ ret'[t].kind = "none")
                => /\ ret'[t].why = "find_err"
                   /\ ret'[t].finds = 1
          /\ Panics(t, "load_class_cached", n)
                => /\ ret'[t].why \in {"no_vm", "attach_err"}
                   /\ CACHED_CLASSES' = CACHED_CLASSES
                   /\ findCalls' = findCalls]_vars

\* one thread's load_class_cached has panicked on VM = None, another's on a
\* failed attachment
C9_Witness ==
    \E t \in Threads, u \in Threads :
        /\ call[t].op = "load_class_cached" /\ pc[t] = "panicked"
        /\ ret[t] = RetPanic("no_vm")
        /\ call[u].op = "load_class_cached" /\ pc[u] = "panicked"
        /\ ret[u] = RetPanic("attach_err")

\* C10: when find_class succeeds inside load_class_cached(n) on t (a miss),
\* the call has made exactly one find_class call, t's map gets the reference
\* find_class returned under n and is otherwise unchanged, and the call
\* returns that same reference.
C10_MissInsertsAndReturns ==
    [][\A t \in Threads, n \in Names :
          (pc[t] = "load_attach" /\ call[t].arg = n
             /\ findOk'[t][n] = findOk[t][n] + 1)
              => /\ CACHED_CLASSES[t][n] = NoClass
                 /\ CountOf(findCalls') = FindCount + 1
                 /\ findCalls'[t][n] = findCalls[t][n] + 1
                 /\ pc'[t] = "idle"
                 /\ ret'[t].kind = "some" /\ ret'[t].finds = 1
                 /\ ret'[t].found \in Refs
                 /\ ret'[t].val = ret'[t].found
                 /\ CACHED_CLASSES'[t][n] = ret'[t].found
                 /\ CACHED_CLASSES' =
                       [CACHED_CLASSES EXCEPT ![t][n] = ret'[t].found]]_vars

\* a first load_class_cached(n) on t has returned the reference find_class
\* gave it, now in t's map
C10_Witness ==
    \E t \in Threads, n \in Names :
        /\ pc[t] = "idle"
        /\ call[t] = Call("load_class_cached", n)
        /\ ret[t].kind = "some" /\ ret[t].finds = 1
        /\ ret[t].val = ret[t].found
        /\ CACHED_CLASSES[t][n] = ret[t].found
        /\ findCalls[t][n] = 1 /\ findOk[t][n] = 1

\* ---- overlapping accesses of VM ----
\* the threads that hold a reference into VM, between as_ref() and the attach
\* call made through it
Holders ==
    {t \in Threads : pc[t] \in {"get_env_attach", "get_env_safe_attach", "load_attach"}}
\* a store of set_jvm is under way while another thread holds a reference into
\* VM: the write and the read overlap
Overlap == \E w \in Writers : Holders \ {w} # {}
\* the step reads VM on thread t: the as_ref() of a call of jvm, get_env,
\* get_env_safe or of a load_class_cached that misses, or the use of the
\* reference one of them holds
ReadsVM(t) ==
    \/ Begins(t) /\ call'[t].op \in {"jvm", "get_env", "get_env_safe"}
    \/ Begins(t) /\ call'[t].op = "load_class_cached"
                 /\ GetClass(CACHED_CLASSES, t, call'[t].arg) = NoClass
    \/ t \in Holders /\ Moved(t)

\* C11: nothing orders the accesses of VM, so a store of set_jvm on one thread
\* and a read of VM by jvm, get_env or get_env_safe on another can overlap; but
\* as long as the calls so far were a single set_jvm that had returned before
\* any other call began, no read of VM is made while a store is under way, no
\* store is under way while a reference into VM is held, and VM is not written
\* again.
C11_RaceOnlyOutOfOrder ==
    [][initFirst' =>
          /\ ~Overlap'
          /\ \A t \in Threads : ReadsVM(t) => NoStore(t)
          /\ SetDone => VM' = VM]_vars

\* a thread is storing into VM while another holds a reference to the JavaVM
\* that store replaces, obtained by get_env or get_env_safe
C11_Witness ==
    /\ ~initFirst
    /\ \E w \in Writers :
          \E r \in Threads \ {w} :
              /\ pc[r] \in {"get_env_attach", "get_env_safe_attach"}
              /\ held[r] # NoVM
              /\ held[r] = VM
              /\ call[w].arg # held[r]

\* the step is get_env or get_env_safe returning an environment to t
GetsEnv(t) ==
    /\ Returns(t, "get_env", 0) \/ Returns(t, "get_env_safe", 0)
    /\ ret'[t].kind = "some"

\* C12: the crate attaches and never detaches. No step takes a thread out of
\* the attachments of a JavaVM; when get_env or get_env_safe returns an
\* environment to thread t, t is attached to the JavaVM it came from; and when
\* t was attached to it already, the attachments are the same as before: the
\* call reuses the attachment, it does not add a second one.
C12_AttachmentOnlyGrows ==
    [][\A t \in Threads :
          /\ attached[t] \subseteq attached'[t]
          /\ GetsEnv(t) => ret'[t].val \in attached'[t]
          /\ GetsEnv(t) /\ ret'[t].val \in attached[t] => attached' = attached
          /\ ~(Moved(t) /\ pc[t] \in {"get_env_attach", "get_env_safe_attach", "load_attach"})
                => attached'[t] = attached[t]]_vars

\* get_env_safe returned an environment to a thread that an earlier
\* load_class_cached had attached already, while another thread is not attached
C12_Witness ==
    \E t \in Threads :
        /\ pc[t] = "idle"
        /\ call[t] = Call("get_env_safe", 0)
        /\ ret[t].kind = "some"
        /\ attached[t] = {ret[t].val}
        /\ \E n \in Names : findCalls[t][n] >= 1
        /\ \E u \in Threads \ {t} : attached[u] = {}

\* C13: a thread's cache is a map, so it holds at most one reference per name;
\* in every state, for every thread t and name n, the entry of n in t's cache
\* is the reference that load_class_cached(n) last returned to t with no
\* unload_cached_class(n) on t since, and there is no entry when there was no
\* such call; an entry is a reference find_class can return, and t has had at
\* least one find_class(n) that returned Ok.
C13_CacheIsLastResolution ==
    \A t \in Threads, n \in Names :
        /\ CACHED_CLASSES[t][n] = resolved[t][n]
        /\ CACHED_CLASSES[t][n] \in Refs \cup {NoClass}
        /\ CACHED_CLASSES[t][n] # NoClass => findOk[t][n] >= 1

\* a thread holds the entry of a name it resolved, while an entry that was
\* resolved (on any thread, for any name) has been unloaded and is gone
C13_Witness ==
    \E t \in Threads, n \in Names :
        /\ CACHED_CLASSES[t][n] # NoClass
        /\ findOk[t][n] = 1
        /\ \E u \in Threads, m \in Names :
              /\ <<u, m>> # <<t, n>>
              /\ findOk[u][m] = 1
              /\ CACHED_CLASSES[u][m] = NoClass
              /\ call[u] = Call("unload_cached_class", m)

\* the step belongs to a call of set_jvm on t: its entry or its store
InSetJvm(t) == Moved(t) /\ call'[t].op = "set_jvm"

\* C14: a cache hit does not depend on VM. No step of set_jvm, whether it sets
\* or clears VM, changes the cache of any thread; and a call of
\* load_class_cached(n) on a thread whose cache holds n returns in that step
\* with Some of the cached reference, whatever VM holds and whatever other
\* threads are doing to it, without panicking, without attaching the thread and
\* without a find_class call.
C14_HitIgnoresVM ==
    [][\A t \in Threads :
          /\ InSetJvm(t) => CACHED_CLASSES' = CACHED_CLASSES
          /\ \A n \in Names :
                Calls(t, "load_class_cached", n) /\ GetClass(CACHED_CLASSES, t, n) # NoClass
                    => /\ pc'[t] = "idle"
                       /\ ret'[t].kind = "some"
                       /\ ret'[t].val = GetClass(CACHED_CLASSES, t, n)
                       /\ ret'[t].finds = 0
                       /\ attached' = attached
                       /\ findCalls' = findCalls
                       /\ CACHED_CLASSES' = CACHED_CLASSES
                       /\ VM' = VM]_vars

\* with VM cleared by a set_jvm(None) that has returned and no set_jvm under
\* way, a thread has got its cached reference from load_class_cached without
\* a find_class call
C14_Witness ==
    /\ VM = NoVM
    /\ lastSet = NoVM
    /\ Writers = {}
    /\ \E t \in Threads, n \in Names :
          /\ pc[t] = "idle"
          /\ call[t] = Call("load_class_cached", n)
          /\ ret[t].kind = "some"
          /\ ret[t].finds = 0
          /\ ret[t].val = CACHED_CLASSES[t][n]
          /\ \E u \in Threads \ {t} : call[u] = Call("set_jvm", NoVM) /\ pc[u] = "idle"

\* the step belongs to a call of op on t
InCall(t, ops) == Moved(t) /\ call'[t].op \in ops

\* C15: a step of load_class_cached(n) or unload_cached_class(n) on thread t
\* changes at most the entry of n in t's cache: the entries of the other names
\* on t and every entry of every other thread are as before, and so is VM; a
\* step of jvm, get_env or get_env_safe changes no cache and leaves VM as it
\* is.
C15_FrameOfCalls ==
    [][\A t \in Threads :
          /\ InCall(t, {"load_class_cached", "unload_cached_class"})
                => /\ VM' = VM
                   /\ \A u \in Threads, m \in Names :
                         <<u, m>> # <<t, call'[t].arg>>
                             => CACHED_CLASSES'[u][m] = CACHED_CLASSES[u][m]
          /\ InCall(t, {"jvm", "get_env", "get_env_safe"})
                => /\ VM' = VM
                   /\ CACHED_CLASSES' = CACHED_CLASSES]_vars

\* load_class_cached(n) has resolved and cached n on a thread that still holds
\* the entry of another name, with VM still set
C15_Witness ==
    \E t \in Threads, n \in Names :
        /\ pc[t] = "idle"
        /\ call[t] = Call("load_class_cached", n)
        /\ ret[t].kind = "some"
        /\ ret[t].finds = 1
        /\ CACHED_CLASSES[t][n] = ret[t].val
        /\ \E m \in Names \ {n} : CACHED_CLASSES[t][m] # NoClass
        /\ VM # NoVM

\* C16: unload_cached_class never panics and never goes to the JavaVM. A
\* thread that is not inside a call can call unload_cached_class(n) in every
\* state, with VM None or set or being written; the call returns () in that
\* step, and the step attaches no thread, makes no find_class call and leaves
\* VM as it is.
C16_UnloadNeverPanics ==
    [][\A t \in Threads, n \in Names :
          /\ pc[t] = "idle" => ENABLED (UnloadCachedClass(t, n) /\ pc'[t] = "idle")
          /\ InCall(t, {"unload_cached_class"})
                => /\ pc[t] = "idle"
                   /\ pc'[t] = "idle"
                   /\ ret'[t] = RetUnit
                   /\ held' = held
                   /\ attached' = attached
                   /\ findCalls' = findCalls
                   /\ findOk' = findOk
                   /\ VM' = VM]_vars

\* unload_cached_class has returned to a thread that was never attached and
\* never made a find_class call, with VM None and no set_jvm under way
C16_Witness ==
    /\ VM = NoVM
    /\ Writers = {}
    /\ \E t \in Threads, n \in Names :
          /\ pc[t] = "idle"
          /\ call[t] = Call("unload_cached_class", n)
          /\ ret[t] = RetUnit
          /\ attached[t] = {}
          /\ \A m \in Names : findCalls[t][m] = 0
          /\ \E u \in Threads \ {t} : pc[u] = "panicked" /\ ret[u] = RetPanic("no_vm")

====
